---- MODULE Spec2Model ----
(***************************************************************************)
(* State-machine model of taxii_service/parsers.py: the STIXParser import  *)
(* run (parse_stix and the walks and passes it calls) followed by the      *)
(* caller's relate_objects.  Python tuples are TLA+ tuples, so the source's *)
(* x[0], x[1] read x[1], x[2] here.                                         *)
(***************************************************************************)
EXTENDS Integers, Sequences, FiniteSets, Bags, TLC

\* ------------------------------------------------------------- bounds
MaxIndicators == 1      \* indicators of a document
MaxObservables == 1     \* top-level observables of a document
MaxActors == 1          \* threat actors of a document
MaxCampaigns == 1       \* campaigns of a document

\* ------------------------------------------------------------ helpers
Put(f, k, v) == [x \in (DOMAIN f) \cup {k} |-> IF x = k THEN v ELSE f[x]]
Pop(f, k) == [x \in (DOMAIN f) \ {k} |-> f[x]]
EmptyMap == [x \in {} |-> 0]
SeqsUpTo(S, n) == UNION {[1..k -> S] : k \in 0..n}
IsPrefix(s, t) == Len(s) <= Len(t) /\ SubSeq(t, 1, Len(s)) = s

\* ----------------------------------------------------- the documents
\* Ids of the document graph.  The package, the indicators, the observables,
\* the cybox objects inside the observables, the threat actors and the
\* related indicators all live in one id space and are pairwise distinct.
PackageId == "pkg"
IndicatorId(k) == CASE k = 1 -> "i1" [] k = 2 -> "i2" [] k = 3 -> "i3" [] OTHER -> "i4"
ActorId(k) == CASE k = 1 -> "a1" [] k = 2 -> "a2" [] OTHER -> "a3"
ObservableIds == {"o1", "o2", "o3"}
ObjectId(o) ==
  CASE o = "o1" -> "obj1" [] o = "o2" -> "obj2" [] o = "o4" -> "obj4"
    [] o = "o5" -> "obj5" [] o = "o6" -> "obj6" [] o = "o7" -> "obj7"
    [] o = "o8" -> "obj8" [] OTHER -> "obj3"

\* The cybox object of an observable, as the classifier reads it:
\*   props      object_ and object_.properties are present
\*   type       class of the properties (Address, DomainName, Artifact, File,
\*              EmailMessage, or another class make_crits_object maps)
\*   category   Address.category
\*   nvalues    number of values the object carries
\*   cert       custom_properties[0] is crits_type = "Certificate"
\*   network    a related Artifact of type Network exists
\*   features   extracted_features is present
\*   attachments  object references of an EmailMessage's attachments
\*   unsupported  reading the payload raises before any handler is called
NoObject ==
  [props |-> FALSE, type |-> "", category |-> "", nvalues |-> 0, cert |-> FALSE,
   network |-> FALSE, features |-> FALSE, attachments |-> <<>>,
   unsupported |-> FALSE]
Cybox(o) ==
  CASE o = "o1" -> [NoObject EXCEPT !.props = TRUE, !.type = "Address",
                                    !.category = "ipv4-addr", !.nvalues = 1]
    [] o = "o2" -> [NoObject EXCEPT !.props = TRUE, !.type = "EmailMessage",
                                    !.nvalues = 1,
                                    !.attachments = <<"o1", "o3">>]
    [] o = "o4" -> [NoObject EXCEPT !.props = TRUE, !.type = "File", !.nvalues = 1,
                                    !.cert = TRUE, !.network = TRUE]
    [] o = "o5" -> [NoObject EXCEPT !.props = TRUE, !.type = "File", !.nvalues = 1,
                                    !.network = TRUE]
    [] o = "o6" -> [NoObject EXCEPT !.props = TRUE, !.type = "File", !.nvalues = 1,
                                    !.features = TRUE]
    [] o = "o7" -> [NoObject EXCEPT !.props = TRUE, !.type = "Address",
                                    !.category = "e-mail", !.nvalues = 1]
    [] o = "o8" -> [NoObject EXCEPT !.props = TRUE, !.type = "URI", !.nvalues = 3]
    [] OTHER -> NoObject

\* A related indicator (indicator.related_indicators[k].item).
MartiRelation ==
  [title |-> "MARTI Relation", id |-> "r1", short_description |-> "Related To",
   confidence |-> "Medium"]

\* The indicators a document is built from.  producer: indicator.producer is
\* present; ttps, sightings: number of indicated ttps and of sighting sources;
\* related_campaigns: positions (in the campaign list) of the campaigns named.
NoIndicator ==
  [title |-> "", observables |-> <<>>, related |-> <<>>, producer |-> TRUE,
   ttps |-> 0, sightings |-> 0, related_campaigns |-> <<>>]
PlainIndicator ==
  [NoIndicator EXCEPT !.observables = <<"o1">>, !.related = <<MartiRelation>>,
                      !.ttps = 1, !.sightings = 1, !.related_campaigns = <<1>>]
EmptyIndicator == [NoIndicator EXCEPT !.observables = <<"o3">>]
WrappedEmail ==
  [NoIndicator EXCEPT !.title = "Top-Level Object", !.observables = <<"o2">>,
                      !.producer = FALSE]
WrappedPair ==
  [NoIndicator EXCEPT !.title = "Top-Level Object", !.observables = <<"o2", "o1">>]
CampaignMarker == [NoIndicator EXCEPT !.title = "MARTI Campaign"]

\* A related indicator that carries a comment: its description is the text,
\* its timestamp the date, and it has a producer.
CommentRelation(text, date) ==
  [title |-> "CRITs Comment(s)", id |-> "r2", short_description |-> "",
   confidence |-> "", description |-> text, timestamp |-> date]
Commented ==
  [NoIndicator EXCEPT !.observables = <<"o1">>,
                      !.related = <<CommentRelation("note", 1)>>]
CommentedTwice ==
  [NoIndicator EXCEPT !.observables = <<"o1">>,
                      !.related = <<CommentRelation("note", 1),
                                    CommentRelation("note", 1)>>]
CommentedAnew ==
  [NoIndicator EXCEPT !.observables = <<"o1">>,
                      !.related = <<CommentRelation("note", 1),
                                    CommentRelation("note", 2),
                                    CommentRelation("other", 1)>>]
IndicatorShapes ==
  {PlainIndicator, EmptyIndicator, WrappedEmail, WrappedPair, CampaignMarker}

\* The first incident's related_indicators, in document order.
HintLists ==
  {<<>>, << <<"i1", "Indicates", "High">> >>,
   << <<"o1", "Contains", "Low">>, <<"pkg", "Part Of", "Medium">> >>}

\* The header's handling section: absent, with a TLP marking, without one.
Headers == {"none", "tlp", "notlp"}


\* A byte buffer STIXPackage.from_xml makes no package of.
Unparsable ==
  [valid |-> FALSE, information_source |-> "", indicators |-> <<>>, campaigns |-> 0,
   observables |-> {}]

\* The documents, as far as the construction fixes them: the declared
\* information source, the indicators and the number of campaigns.  The other
\* parts (first incident, header markings, top-level observables, threat
\* actors) are drawn from the sets above by the step that reads them; the
\* field observables holds the observables the top-level list is drawn from.
DocumentsOf(names, n) ==
  {Unparsable} \cup
  {[valid |-> TRUE, information_source |-> info, indicators |-> inds, campaigns |-> nc,
    observables |-> ObservableIds] :
     info \in names, inds \in SeqsUpTo(IndicatorShapes, n), nc \in 0..MaxCampaigns}
Documents == DocumentsOf({""}, MaxIndicators)

\* The arguments of parse_stix(reference, make_event, source).  A reference is
\* a sequence of string pieces; <<>> is the empty string.
Sources == {"SrcA", "SrcB"}
ArgumentsOf(references, names) ==
  {[reference |-> r, make_event |-> m, source |-> s] :
     r \in references, m \in BOOLEAN, s \in names}
Arguments == ArgumentsOf({<<"ref">>}, {"", "SrcA"})

\* -------------------------------------------------------------- state
VARIABLES
  data,              \* self.data: the document handed to the constructor
  args,              \* the arguments the caller passes to parse_stix
  pc,                \* position of the run
  i,                 \* index of the node the current walk is at
  package_observables, \* package.observables, as far as the walk has read it
  error,             \* the exception parse_stix raised to the caller ("" = none)
  information_source,\* self.information_source
  source,            \* self.source: [name, instances]
  source_instance,   \* self.source_instance: [analyst, method, reference]
  event,             \* self.event: the Event entity (0 = None)
  event_rels,        \* self.event_rels: id -> <<relation type, confidence>>
  relationships,     \* self.relationships: <<left id, type, right id, confidence>>
  imported,          \* self.imported: id -> <<entity kind, entity>>
  failed,            \* self.failed: <<message, node type, node id>>
  nobjs,             \* the store: number of entities the handlers have returned
  calls,             \* the store: handler and update calls, <<operation, id>>
  forged,            \* the store: forge_relationship calls
  edges,             \* the store: bag of add_relationship calls
  saved              \* the store: entities saved by relate_objects

vars ==
  <<data, args, pc, i, package_observables, error, information_source, source, source_instance, event,
    event_rels, relationships, imported, failed, nobjs, calls, forged, edges, saved>>

\* Ledgers with the list of pending relationships started afresh.
Ledgers_FreshRelationships ==
  [imported |-> imported, failed |-> failed, relationships |-> <<>>,
   nobjs |-> nobjs, calls |-> calls]

\* The part of the state the walks thread through the classifier.
Ledgers ==
  [imported |-> imported, failed |-> failed, relationships |-> relationships,
   nobjs |-> nobjs, calls |-> calls]

InitWith(documents, arguments) ==
  /\ data \in documents
  /\ args \in arguments
  /\ pc = "start"
  /\ i = 0
  /\ package_observables = <<>>
  /\ error = ""
  /\ information_source = ""
  /\ source = [name |-> "", instances |-> <<>>]
  /\ source_instance = [analyst |-> "analyst", method |-> "taxii", reference |-> <<>>]
  /\ event = 0
  /\ event_rels = EmptyMap
  /\ relationships = <<>>
  /\ imported = EmptyMap
  /\ failed = <<>>
  /\ nobjs = 0
  /\ calls = <<>>
  /\ forged = <<>>
  /\ edges = EmptyMap
  /\ saved = {}

Init == InitWith(Documents, Arguments)

\* ---------------------------------------------------- collaborators
\* crits.core.handlers.does_source_exist: is the name a source of the store.
does_source_exist(name) == name \in Sources

\* The outcome of one persistence-handler call, decided by the store.
Results == {"ok", "fail"}

\* object_mapper.get_crits_ip_type: the IP subtype of an address category
\* ("" when the table has none).
IpCategories ==
  {"cidr", "ipv4-addr", "ipv4-net", "ipv4-netmask", "ipv6-addr", "ipv6-net",
   "ipv6-netmask", "ipv6-subnet"}
get_crits_ip_type(category) == IF category \in IpCategories THEN category ELSE ""

\* object_mapper.make_crits_object: the object type of a cybox object.
make_crits_object(item) == [object_type |-> item.type, nvalues |-> item.nvalues]

\* ------------------------------------------------------ the ledgers
\* One handler call: logged, and a successful one returns a new entity.
Call(S, op, id, res) ==
  [S EXCEPT !.calls = Append(@, <<op, id>>),
            !.nobjs = IF res = "ok" THEN @ + 1 ELSE @]
\* An update call of an auxiliary pass or of the classifier.
Update(S, op, id) == [S EXCEPT !.calls = Append(@, <<op, id>>)]
Record(S, id, kind, obj) == [S EXCEPT !.imported = Put(@, id, <<kind, obj>>)]
\* Fail keeping the last FailureRecord only.
Fail_LastOnly(S, msg, type, id) == [S EXCEPT !.failed = << <<msg, type, id>> >>]
Fail(S, msg, type, id) == [S EXCEPT !.failed = Append(@, <<msg, type, id>>)]

was_saved(imp, id) == id \in DOMAIN imp

\* parse_res recording the entity under the id of the cybox object.
parse_res_ObjectKey(S, imp_type, obs, res) ==
  IF res = "ok"
    THEN Record(S, ObjectId(obs), imp_type, S.nobjs)
    ELSE Fail(S, "handler message", "Observable", obs)

\* parse_res, after the handler call that returned res (S.nobjs is its object).
parse_res(S, imp_type, obs, res) ==
  IF res = "ok"
    THEN Record(S, obs, imp_type, S.nobjs)
    ELSE Fail(S, "handler message", "Observable", obs)

\* for value in values: res = handler(value); parse_res(imp_type, obs, res)
RECURSIVE HandleValues(_, _, _, _, _, _)
HandleValues(S, op, imp_type, obs, r, k) ==
  IF k > Len(r) THEN S
  ELSE HandleValues(parse_res(Call(S, op, obs, r[k]), imp_type, obs, r[k]),
                    op, imp_type, obs, r, k + 1)

\* The handler calls the classifier makes for an observable.
HandlerCalls(o) ==
  LET item == Cybox(o) IN
  IF ~item.props \/ item.unsupported THEN 0
  ELSE CASE item.type = "Address" ->
              IF get_crits_ip_type(item.category) # "" THEN item.nvalues ELSE 0
         [] item.type \in {"Artifact", "File", "EmailMessage"} -> 1
         [] OTHER -> item.nvalues
ResultsOf(o) == [1..HandlerCalls(o) -> Results]
RECURSIVE ResultLists(_)
ResultLists(observables) ==
  IF observables = <<>> THEN {<<>>}
  ELSE {<<r>> \o rest : r \in ResultsOf(Head(observables)),
                        rest \in ResultLists(Tail(observables))}

\* Attachments of an email that defers nothing.
Attachments_None(obs, item) == <<>>

\* The pending "Contains" relationships of an imported email.
Attachments(obs, item) ==
  [k \in 1..Len(item.attachments) |-> <<obs, "Contains", item.attachments[k], "High">>]

\* FileKind asking for the network artifact first.
FileKind_NetworkFirst(item) ==
  IF item.network THEN "PCAP"
  ELSE IF item.cert THEN "Certificate"
  ELSE "Sample"

\* The kind a File is imported as: the elif chain of the File tests.
FileKind(item) ==
  IF item.cert THEN "Certificate"
  ELSE IF item.network THEN "PCAP"
  ELSE "Sample"

\* AlreadyCaught that lets every object through to the Indicator handler.
AlreadyCaught_Never(item) == FALSE

\* if obj.object_type == 'Address': continue, in the Indicator branch.
AlreadyCaught(item) == make_crits_object(item).object_type = "Address"

\* The body of parse_observables' try block for one observable.
Classify(S, obs, r) ==
  LET item == Cybox(obs)
      S1 == IF /\ item.type = "Address"
               /\ item.category \in IpCategories
               /\ get_crits_ip_type(item.category) # ""
              THEN HandleValues(S, "ip_add_update", "IP", obs, r, 1)
              ELSE S
      One(op, imp_type) == parse_res(Call(S1, op, obs, r[1]), imp_type, obs, r[1])
  IN CASE item.type = "DomainName" ->
            HandleValues(S1, "upsert_domain", "Domain", obs, r, 1)
       [] item.type = "Artifact" -> One("handle_raw_data_file", "RawData")
       [] item.type = "File" /\ FileKind(item) = "Certificate" ->
            One("handle_cert_file", "Certificate")
       [] item.type = "File" /\ FileKind(item) = "PCAP" ->
            One("handle_pcap_file", "PCAP")
       [] item.type = "File" /\ FileKind(item) = "Sample" ->
            LET S2 == One("handle_file", "Sample") IN
            IF ~item.features THEN S2
            ELSE IF r[1] = "ok" THEN Update(S2, "modify_sample_filenames", obs)
            ELSE Fail(S2, "exception message", item.type, ObjectId(obs))
       [] item.type = "EmailMessage" ->
            LET S2 == One("handle_email_fields", "Email") IN
            IF r[1] = "ok"
              THEN [S2 EXCEPT !.relationships = @ \o Attachments(obs, item)]
              ELSE S2
       [] OTHER ->
            IF AlreadyCaught(item) THEN S1
            ELSE HandleValues(S1, "handle_indicator_ind", "Indicator", obs, r, 1)

\* parse_observables over a list of observables, rs[k] the results of the
\* handler calls made for observables[k].
RECURSIVE parse_observables(_, _, _)
parse_observables(S, observables, rs) ==
  IF observables = <<>> THEN S
  ELSE LET obs == Head(observables)
           item == Cybox(obs)
           S1 == IF ~item.props
                   THEN Fail(S, "No valid object_properties was found!",
                             "Observable", obs)
                 ELSE IF item.unsupported
                   THEN Fail(S, "exception message", item.type, ObjectId(obs))
                 ELSE Classify(S, obs, Head(rs))
       IN parse_observables(S1, Tail(observables), Tail(rs))

\* ------------------------------------------------ the indicator walk
IsWrapper(indicator) == indicator.title = "Top-Level Object"
IsMarker(indicator) == indicator.title = "MARTI Campaign"

\* The handler calls parse_indicators makes for an observable of a plain
\* indicator: one per value of the object.
IndicatorCalls(o) ==
  LET item == Cybox(o) IN
  IF ~item.props \/ item.unsupported THEN 0 ELSE make_crits_object(item).nvalues
RECURSIVE IndicatorResultLists(_)
IndicatorResultLists(observables) ==
  IF observables = <<>> THEN {<<>>}
  ELSE {<<r>> \o rest : r \in [1..IndicatorCalls(Head(observables)) -> Results],
                        rest \in IndicatorResultLists(Tail(observables))}

\* IndicatorValues keeping the entity of the first successful value.
RECURSIVE IndicatorValues_FirstWins(_, _, _, _, _)
IndicatorValues_FirstWins(S, id, obs, r, k) ==
  IF k > Len(r) THEN S
  ELSE LET S1 == Call(S, "handle_indicator_ind", id, r[k])
           S2 == IF r[k] = "ok"
                   THEN (IF id \in DOMAIN S1.imported THEN S1
                         ELSE Record(S1, id, "Indicator", S1.nobjs))
                   ELSE Fail(S1, "handler message", Cybox(obs).type, ObjectId(obs))
       IN IndicatorValues_FirstWins(S2, id, obs, r, k + 1)

\* for value in obj.value: handle_indicator_ind(...), in parse_indicators.
RECURSIVE IndicatorValues(_, _, _, _, _)
IndicatorValues(S, id, obs, r, k) ==
  IF k > Len(r) THEN S
  ELSE LET S1 == Call(S, "handle_indicator_ind", id, r[k])
           S2 == IF r[k] = "ok"
                   THEN Record(S1, id, "Indicator", S1.nobjs)
                   ELSE Fail(S1, "handler message", Cybox(obs).type, ObjectId(obs))
       IN IndicatorValues(S2, id, obs, r, k + 1)

\* The observables of a plain indicator.  An observable without object
\* properties reads the unbound name obs: a NameError outside every try.
RECURSIVE IndicatorObservables(_, _, _, _)
IndicatorObservables(S, id, observables, rs) ==
  IF observables = <<>> THEN [S |-> S, raised |-> ""]
  ELSE LET obs == Head(observables)
           item == Cybox(obs)
       IN IF ~item.props THEN [S |-> S, raised |-> "NameError"]
          ELSE IndicatorObservables(
                 IF item.unsupported
                   THEN Fail(S, "exception message", item.type, ObjectId(obs))
                   ELSE IndicatorValues(S, id, obs, Head(rs), 1),
                 id, Tail(observables), Tail(rs))

\* imported.pop(indicator.observables[0].id_) and the move to the wrapper's id.
WrapperTransfer(imp, id, observables) ==
  LET first == observables[1] IN
  IF first \in DOMAIN imp THEN Put(Pop(imp, first), id, imp[first]) ELSE imp

\* ------------------------------------------------- position of the run
AfterThreatActors == "returned"
\* AfterObservables with the passes run once the observables are walked.
AfterObservables_ThenPasses == "comments"
AfterObservables == "threat_actors"
AfterIndicators == "observables"
AfterReleasability == AfterIndicators
AfterTlp == "releasability"
AfterRelatedCampaigns == "tlp"
AfterRfi == IF data.campaigns > 0 THEN "related_campaigns" ELSE AfterRelatedCampaigns
\* AfterIndicatorWalk entering the ttps pass after every walk.
AfterIndicatorWalk_Ttps == IF pc = "indicators" THEN "ttps" ELSE "comments"
AfterIndicatorWalk == "comments"
AfterEvent == IF data.indicators # <<>> THEN "indicators" ELSE AfterIndicators
\* AfterSource creating the Event whether or not the caller asked for it.
AfterSource_AlwaysEvent(make_event) == "event"
AfterSource(make_event) == IF make_event THEN "event" ELSE AfterEvent

SetLedgers(S) ==
  /\ imported' = S.imported
  /\ failed' = S.failed
  /\ relationships' = S.relationships
  /\ nobjs' = S.nobjs
  /\ calls' = S.calls

Raise(e) == pc' = "raised" /\ error' = e

\* ---------------------------------------------------------- parse_stix
\* Reference that never adds the note.
Reference_NoNote(reference, info) == reference

\* The reference of the source instance: the caller's, plus a note naming the
\* document's information source.
Reference(reference, info) ==
  IF info # ""
    THEN (IF reference = <<>> THEN <<>> ELSE reference \o <<", ">>)
         \o <<"STIX Source: ", info>>
    ELSE reference

\* ResolveSource trusting any override the caller names.
ResolveSource_Unchecked(override, info) ==
  IF override # "" THEN override
  ELSE IF does_source_exist(info) THEN info
  ELSE ""

\* ResolveSource asking for the document's declared name first.
ResolveSource_DeclaredFirst(override, info) ==
  IF does_source_exist(info) THEN info
  ELSE IF does_source_exist(override) THEN override
  ELSE ""

\* The source name chosen ("" when there is none to attribute the data to).
ResolveSource(override, info) ==
  IF does_source_exist(override) THEN override
  ELSE IF does_source_exist(info) THEN info
  ELSE ""

\* parse_stix up to the source attribution.
ParseStix ==
  /\ pc = "start"
  /\ IF ~data.valid
       THEN /\ Raise("STIX package failure")
            /\ UNCHANGED <<information_source, source, source_instance, i>>
       ELSE /\ information_source' = data.information_source
            /\ IF ResolveSource(args.source, data.information_source) = ""
                 THEN /\ Raise("No source to attribute data to.")
                      /\ UNCHANGED <<source, source_instance, i>>
                 ELSE /\ source_instance' =
                           [source_instance EXCEPT
                              !.reference = Reference(args.reference, data.information_source)]
                      /\ source' =
                           [name |-> ResolveSource(args.source, data.information_source),
                            instances |-> Append(source.instances, source_instance')]
                      /\ pc' = AfterSource(args.make_event)
                      /\ i' = 1
                      /\ UNCHANGED error
  /\ UNCHANGED <<data, args, package_observables, event, event_rels, relationships,
                 imported, failed, nobjs, calls, forged, edges, saved>>

\* self.event_rels after reading the first incident's related indicators.
RECURSIVE EventRels(_, _)
EventRels(rels, hints) ==
  IF hints = <<>> THEN rels
  ELSE EventRels(Put(rels, Head(hints)[1], <<Head(hints)[2], Head(hints)[3]>>),
                 Tail(hints))

\* if make_event: add_new_event(...)
MakeEvent ==
  /\ pc = "event"
  /\ \E res \in Results, incidents \in HintLists :
       LET S1 == Call(Ledgers, "add_new_event", PackageId, res) IN
       IF res = "ok"
         THEN /\ event' = S1.nobjs
              /\ SetLedgers(Record(S1, PackageId, "Event", S1.nobjs))
              /\ event_rels' = EventRels(event_rels, incidents)
         ELSE /\ SetLedgers(Fail(S1, "handler message", "STIX Event", ""))
              /\ UNCHANGED <<event, event_rels>>
  /\ pc' = AfterEvent
  /\ UNCHANGED <<data, package_observables, args, i, error, information_source, source, source_instance,
                 forged, edges, saved>>

\* One iteration of parse_indicators' loop; at the end of the list the walk
\* returns None and the passes follow.
ParseIndicator ==
  /\ pc = "indicators"
  /\ i <= Len(data.indicators)
  /\ LET indicator == data.indicators[i]
         id == IndicatorId(i)
         next == IF i = Len(data.indicators) THEN AfterIndicatorWalk ELSE "indicators"
     IN IF IsWrapper(indicator)
          THEN \E rs \in ResultLists(indicator.observables) :
                 LET S1 == parse_observables(Ledgers, indicator.observables, rs) IN
                 /\ SetLedgers([S1 EXCEPT !.imported =
                                  WrapperTransfer(@, id, indicator.observables)])
                 /\ pc' = next /\ i' = i + 1 /\ UNCHANGED error
        ELSE IF IsMarker(indicator)
          THEN /\ pc' = "campaigns" /\ i' = i
               /\ UNCHANGED <<error, imported, failed, relationships, nobjs, calls>>
        ELSE \E rs \in IndicatorResultLists(indicator.observables) :
               LET R == IndicatorObservables(Ledgers, id, indicator.observables, rs) IN
               /\ SetLedgers(R.S)
               /\ IF R.raised # ""
                    THEN Raise(R.raised) /\ i' = i
                    ELSE pc' = next /\ i' = i + 1 /\ UNCHANGED error
  /\ UNCHANGED <<data, package_observables, args, information_source, source, source_instance, event,
                 event_rels, forged, edges, saved>>

\* ------------------------------------------------ the campaign wrapper
\* parse_campaigns keeping the first campaign added with success.
RECURSIVE parse_campaigns_FirstWins(_, _, _)
parse_campaigns_FirstWins(S, r, k) ==
  IF k > Len(r) THEN S
  ELSE LET S1 == Call(S, "add_campaign", IndicatorId(1), r[k])
           held == /\ IndicatorId(1) \in DOMAIN S.imported
                   /\ S.imported[IndicatorId(1)][1] = "Campaign"
       IN parse_campaigns_FirstWins(
            IF r[k] = "ok" /\ ~held
              THEN Record(S1, IndicatorId(1), "Campaign", S1.nobjs)
              ELSE S1,
            r, k + 1)

\* parse_campaigns: every campaign is added, each success recorded under the
\* id of the first indicator.
RECURSIVE parse_campaigns(_, _, _)
parse_campaigns(S, r, k) ==
  IF k > Len(r) THEN S
  ELSE LET S1 == Call(S, "add_campaign", IndicatorId(1), r[k]) IN
       parse_campaigns(IF r[k] = "ok"
                         THEN Record(S1, IndicatorId(1), "Campaign", S1.nobjs)
                         ELSE S1,
                       r, k + 1)

ParseCampaigns ==
  /\ pc = "campaigns"
  /\ \E r \in [1..data.campaigns -> Results] : SetLedgers(parse_campaigns(Ledgers, r, 1))
  /\ pc' = "ttps"
  /\ UNCHANGED <<data, package_observables, args, i, error, information_source, source, source_instance,
                 event, event_rels, forged, edges, saved>>

\* ------------------------------------------------- the auxiliary passes
RECURSIVE Flatten(_)
Flatten(ss) == IF ss = <<>> THEN <<>> ELSE Head(ss) \o Flatten(Tail(ss))
Repeat(x, n) == [k \in 1..n |-> x]
Matching(rels, title) == SelectSeq(rels, LAMBDA rel : rel.title = "" \/ rel.title = title)

\* for indicator in indicators[:n]: if self.was_saved(indicator): <calls>
PassOver(n, Calls(_, _)) ==
  Flatten([k \in 1..n |->
             IF was_saved(imported, IndicatorId(k))
               THEN Calls(IndicatorId(k), data.indicators[k])
               ELSE <<>>])

\* What a pass that only updates the store leaves alone.
PassFrame ==
  UNCHANGED <<data, package_observables, args, i, error, information_source, source,
              source_instance, event, event_rels, relationships, imported, failed,
              nobjs, forged, edges, saved>>

ParseTtps ==
  /\ pc = "ttps"
  /\ calls' = calls \o PassOver(Len(data.indicators),
       LAMBDA id, ind : Repeat(<<"merge_ttp", id>>, ind.ttps))
  /\ pc' = "aliases"
  /\ PassFrame

ParseAliases ==
  /\ pc = "aliases"
  /\ calls' = calls \o PassOver(Len(data.indicators),
       LAMBDA id, ind : <<(<<"modify_campaign_aliases", id>>)>>)
  /\ pc' = AfterIndicatorWalk
  /\ PassFrame

\* get_comments(obj_id, obj_type): the comments the store holds for an
\* entity, <<text, date>>.  A comment_add call is logged with the entity, the
\* text and the date it was given: <<"comment_add", id, entity, text, date>>.
get_comments(cs, entity) ==
  {<<cs[k][4], cs[k][5]>> :
     k \in {j \in DOMAIN cs : cs[j][1] = "comment_add" /\ cs[j][3] = entity}}

\* CommentRelations sending every comment, with no look at the store.
RECURSIVE CommentRelations_AlwaysSend(_, _, _, _, _)
CommentRelations_AlwaysSend(cs, id, entity, comments, rels) ==
  IF rels = <<>> THEN cs
  ELSE CommentRelations_AlwaysSend(
         Append(cs, <<"comment_add", id, entity, Head(rels).description,
                      Head(rels).timestamp>>),
         id, entity, comments, Tail(rels))

\* The comment relations of one saved indicator: a comment is sent unless the
\* comments fetched before the loop hold one of the same date and text.
RECURSIVE CommentRelations(_, _, _, _, _)
CommentRelations(cs, id, entity, comments, rels) ==
  IF rels = <<>> THEN cs
  ELSE LET rel == Head(rels)
           send == <<rel.description, rel.timestamp>> \notin comments
       IN CommentRelations(
            IF send
              THEN Append(cs, <<"comment_add", id, entity, rel.description,
                                rel.timestamp>>)
              ELSE cs,
            id, entity, comments, Tail(rels))

\* parse_comments over the indicators from the k-th on.
RECURSIVE parse_comments(_, _)
parse_comments(cs, k) ==
  IF k > Len(data.indicators) THEN cs
  ELSE LET id == IndicatorId(k) IN
       IF was_saved(imported, id)
         THEN parse_comments(
                CommentRelations(cs, id, imported[id][2],
                                 get_comments(cs, imported[id][2]),
                                 Matching(data.indicators[k].related,
                                          "CRITs Comment(s)")),
                k + 1)
         ELSE parse_comments(cs, k + 1)

ParseComments ==
  /\ pc = "comments"
  /\ calls' = parse_comments(calls, 1)
  /\ pc' = "relationship"
  /\ PassFrame

\* parse_comments called once more over the same indicators, by the caller.
ParseCommentsAgain ==
  /\ pc = "relationship"
  /\ calls' = parse_comments(calls, 1)
  /\ pc' = "commented again"
  /\ PassFrame

\* The relationships parse_relationship forges for one saved indicator:
\* <<left kind, left entity, right id, relation type, confidence>>.
Forge(id, indicator) ==
  LET rels == Matching(indicator.related, "MARTI Relation") IN
  [k \in 1..Len(rels) |->
     <<imported[id][1], imported[id][2], rels[k].id, rels[k].short_description,
       rels[k].confidence>>]

ParseRelationship ==
  /\ pc = "relationship"
  /\ forged' = forged \o PassOver(Len(data.indicators), Forge)
  /\ pc' = "sources"
  /\ UNCHANGED <<data, package_observables, args, i, error, information_source, source, source_instance,
                 event, event_rels, relationships, imported, failed, nobjs, calls,
                 edges, saved>>

\* The saved indicators without a producer: indicator.producer.contributing_sources
\* raises AttributeError there, outside every try.
NoProducer ==
  {k \in 1..Len(data.indicators) :
     was_saved(imported, IndicatorId(k)) /\ ~data.indicators[k].producer}
Min(S) == CHOOSE x \in S : \A y \in S : x <= y

ParseSources ==
  /\ pc = "sources"
  /\ IF NoProducer = {}
       THEN /\ calls' = calls \o PassOver(Len(data.indicators),
                                          LAMBDA id, ind : <<(<<"save", id>>)>>)
            /\ pc' = "sectors"
            /\ UNCHANGED error
       ELSE /\ calls' = calls \o PassOver(Min(NoProducer) - 1,
                                          LAMBDA id, ind : <<(<<"save", id>>)>>)
            /\ Raise("AttributeError")
  /\ UNCHANGED <<data, package_observables, args, i, information_source, source, source_instance,
                 event, event_rels, relationships, imported, failed, nobjs, forged,
                 edges, saved>>

ParseSectors ==
  /\ pc = "sectors"
  /\ calls' = calls \o PassOver(Len(data.indicators),
       LAMBDA id, ind : <<(<<"modify_sector_list", id>>)>>)
  /\ pc' = "sightings"
  /\ PassFrame

ParseSightings ==
  /\ pc = "sightings"
  /\ calls' = calls \o PassOver(Len(data.indicators),
       LAMBDA id, ind : Repeat(<<"add_sighting", id>>, ind.sightings))
  /\ pc' = "kill_chain"
  /\ PassFrame

ParseKillChain ==
  /\ pc = "kill_chain"
  /\ calls' = calls \o PassOver(Len(data.indicators),
       LAMBDA id, ind : <<(<<"modify_kill_chain_list", id>>)>>)
  /\ pc' = "rfi"
  /\ PassFrame

ParseRfi ==
  /\ pc = "rfi"
  /\ calls' = calls \o PassOver(Len(data.indicators),
       LAMBDA id, ind : Repeat(<<"add_rfi", id>>, Len(Matching(ind.related, "CRITs RFI"))))
  /\ pc' = AfterRfi
  /\ PassFrame

ParseRelatedCampaigns ==
  /\ pc = "related_campaigns"
  /\ calls' = calls \o PassOver(Len(data.indicators),
       LAMBDA id, ind : Repeat(<<"campaign_add", id>>, Len(SelectSeq(ind.related_campaigns, LAMBDA c : c <= data.campaigns))))
  /\ pc' = AfterRelatedCampaigns
  /\ PassFrame

\* if self.package.stix_header: parse_tlp(...).  tlp is assigned only when a
\* TLP marking structure is met, so a header without one reads an unbound
\* local, outside every try.
ParseTlp ==
  /\ pc = "tlp"
  /\ \E header \in Headers :
       CASE header = "none" -> pc' = AfterTlp /\ UNCHANGED <<calls, error>>
         [] header = "tlp" ->
              /\ calls' = calls \o PassOver(Len(data.indicators),
                                            LAMBDA id, ind : <<(<<"set_tlp", id>>)>>)
              /\ pc' = AfterTlp
              /\ UNCHANGED error
         [] OTHER -> Raise("UnboundLocalError") /\ UNCHANGED calls
  /\ UNCHANGED <<data, package_observables, args, i, information_source, source, source_instance,
                 event, event_rels, relationships, imported, failed, nobjs, forged,
                 edges, saved>>

\* SetReleasability without the was_saved test.
SetReleasability_Ungated ==
  /\ i' = 1
  /\ pc = "releasability"
  /\ calls' = calls \o [k \in DOMAIN data.indicators |->
                          <<"set_releasability_flag", IndicatorId(k)>>]
  /\ pc' = AfterReleasability
  /\ UNCHANGED <<data, package_observables, args, error, information_source, source, source_instance,
                 event, event_rels, relationships, imported, failed, nobjs, forged,
                 edges, saved>>

SetReleasability ==
  /\ i' = 1
  /\ pc = "releasability"
  /\ calls' = calls \o PassOver(Len(data.indicators),
                                LAMBDA id, ind : <<(<<"set_releasability_flag", id>>)>>)
  /\ pc' = AfterReleasability
  /\ UNCHANGED <<data, package_observables, args, error, information_source, source, source_instance,
                 event, event_rels, relationships, imported, failed, nobjs, forged,
                 edges, saved>>

\* ------------------------------------- the observable and actor walks
Range(s) == {s[k] : k \in DOMAIN s}

\* One iteration of the loop of parse_observables(package.observables), on the
\* next observable of the document.
ParseObservable ==
  /\ pc = "observables"
  /\ Len(package_observables) < MaxObservables
  /\ \E obs \in data.observables \ Range(package_observables) :
       /\ package_observables' = Append(package_observables, obs)
       /\ \E r \in ResultsOf(obs) :
            SetLedgers(parse_observables(Ledgers, <<obs>>, <<r>>))
  /\ UNCHANGED <<data, pc, i, args, error, information_source, source, source_instance,
                 event, event_rels, forged, edges, saved>>

\* The end of the list of top-level observables.
EndObservables ==
  /\ pc = "observables"
  /\ pc' = AfterObservables
  /\ i' = 1
  /\ UNCHANGED <<data, package_observables, args, error, information_source, source,
                 source_instance, event, event_rels, relationships, imported, failed,
                 nobjs, calls, forged, edges, saved>>

ActorTags ==
  <<"ActorSophistication", "ActorMotivation", "ActorThreatType", "ActorIntendedEffect">>

\* The attributes of a threat actor: the values of its sophistications,
\* motivations, types and intended effects, in the order of ActorTags.
\* "Nameless" is a value the vocabulary does not know.
ThreatActors ==
  { <<<<>>, <<>>, <<>>, <<>>>>,
    <<<<"Expert">>, <<"Ego">>, <<>>, <<"Nameless", "Theft">>>> }

\* The vocabulary of each category of actor tags.
ActorVocabulary ==
  <<{"Expert", "Novice"}, {"Ego", "Ideological"}, {"Hacker", "Insider"},
    {"Theft", "Fraud"}>>

\* get_crits_actor_tags: the tag of a value, "" for a value without one.
get_crits_actor_tags(v) ==
  IF \E c \in DOMAIN ActorVocabulary : v \in ActorVocabulary[c] THEN v ELSE ""

\* The tags appended for the values of one attribute.
AppendedTags(values) ==
  SelectSeq([k \in DOMAIN values |-> get_crits_actor_tags(values[k])],
            LAMBDA v : v # "")

\* The four update_actor_tags calls for one actor.  sl, ml, tl and il are one
\* list (sl = ml = tl = il = []): the list a call is given holds the tags
\* appended for its own attribute and for every attribute before it.
RECURSIVE SharedList(_, _)
SharedList(actor, c) ==
  IF c = 0 THEN <<>> ELSE SharedList(actor, c - 1) \o AppendedTags(actor[c])
ActorTagCalls(id, actor) ==
  [c \in DOMAIN ActorTags |->
     <<"update_actor_tags", id, ActorTags[c], SharedList(actor, c)>>]

\* One iteration of parse_threat_actors' loop.
ParseThreatActor ==
  /\ pc = "threat_actors"
  /\ i <= MaxActors
  /\ \E res \in Results \cup {"raise"}, actor \in ThreatActors :
       LET id == ActorId(i)
           S1 == Call(Ledgers, "add_new_actor", id, res)
       IN SetLedgers(
            CASE res = "ok" ->
                   Record([S1 EXCEPT !.calls = @ \o ActorTagCalls(id, actor)],
                          id, "Actor", S1.nobjs)
              [] res = "fail" -> Fail(S1, "handler message", "ThreatActor", "")
              [] OTHER -> Fail(S1, "exception message", "ThreatActor", ""))
  /\ i' = i + 1
  /\ UNCHANGED <<data, package_observables, pc, args, error, information_source, source, source_instance,
                 event, event_rels, forged, edges, saved>>

\* The end of the list of threat actors: parse_stix returns.
EndThreatActors ==
  /\ pc = "threat_actors"
  /\ pc' = AfterThreatActors
  /\ UNCHANGED <<data, package_observables, args, i, error, information_source, source,
                 source_instance, event, event_rels, relationships, imported, failed,
                 nobjs, calls, forged, edges, saved>>

\* ------------------------------------------------------ relate_objects
BagOfImage(S, F(_)) == [e \in {F(x) : x \in S} |-> Cardinality({x \in S : F(x) = e})]

\* EventTargets without the test that spares the Event itself.
EventTargets_All == DOMAIN imported

\* EventEdge that ignores the hints.
EventEdge_AlwaysDefault(id) == <<event, "Related To", imported[id][2], "Unknown">>

\* DeferredEdge drawn from the right entity to the left one.
DeferredEdge_Reversed(k) ==
  <<imported[relationships[k][3]][2], relationships[k][2],
    imported[relationships[k][1]][2], relationships[k][4]>>

\* The ledger entries the Event is related to, and the edge made for each:
\* <<left entity, relation type, right entity, confidence>>.
EventTargets ==
  {id \in DOMAIN imported : id \in DOMAIN event_rels \/ imported[id][1] # "Event"}
EventEdge(id) ==
  IF id \in DOMAIN event_rels
    THEN <<event, event_rels[id][1], imported[id][2], event_rels[id][2]>>
    ELSE <<event, "Related To", imported[id][2], "Unknown">>

\* The deferred relationships with both ends in the ledger, and their edges.
Resolvable ==
  {k \in DOMAIN relationships :
     relationships[k][1] \in DOMAIN imported /\ relationships[k][3] \in DOMAIN imported}
DeferredEdge(k) ==
  <<imported[relationships[k][1]][2], relationships[k][2],
    imported[relationships[k][3]][2], relationships[k][4]>>

\* relate_objects, called by the caller once parse_stix has returned.
relate_objects ==
  /\ pc = "returned"
  /\ edges' = edges (+) (IF event # 0 THEN BagOfImage(EventTargets, EventEdge)
                                      ELSE EmptyBag)
                    (+) BagOfImage(Resolvable, DeferredEdge)
  /\ saved' = saved \cup (IF event # 0 THEN {event} ELSE {})
                    \cup {imported[id][2] : id \in DOMAIN imported}
  /\ pc' = "related"
  /\ UNCHANGED <<data, package_observables, args, i, error, information_source, source, source_instance,
                 event, event_rels, relationships, imported, failed, nobjs, calls,
                 forged>>

Next ==
  \/ ParseStix
  \/ MakeEvent
  \/ ParseIndicator
  \/ ParseCampaigns
  \/ ParseTtps
  \/ ParseAliases
  \/ ParseComments
  \/ ParseRelationship
  \/ ParseSources
  \/ ParseSectors
  \/ ParseSightings
  \/ ParseKillChain
  \/ ParseRfi
  \/ ParseRelatedCampaigns
  \/ ParseTlp
  \/ SetReleasability
  \/ ParseObservable
  \/ EndObservables
  \/ ParseThreatActor
  \/ EndThreatActors
  \/ relate_objects

Spec == Init /\ [][Next]_vars

\* parse_stix up to the first walk, over every combination of override,
\* declared information source and reference.
SourceDocuments == DocumentsOf({"", "SrcX", "SrcB"}, MaxIndicators)
SourceArguments == ArgumentsOf({<<>>, <<"ref">>}, {"", "SrcX", "SrcA"})
NextSource == ParseStix \/ MakeEvent
SpecSource == InitWith(SourceDocuments, SourceArguments) /\ [][NextSource]_vars

\* ------------------------------------------------------------ properties
NoSourceMessage == "No source to attribute data to."
NoPropertiesMessage == "No valid object_properties was found!"
StoreUntouched ==
  calls = <<>> /\ nobjs = 0 /\ forged = <<>> /\ edges = EmptyBag /\ saved = {}

\* C1: when neither the override nor the declared information source is a
\* recognized source, parse_stix raises "No source to attribute data to." and
\* at that point no handler has been called and both ledgers are empty.
C1_NoSourceIsFatal ==
  (/\ pc # "start"
   /\ data.valid
   /\ args.source \notin Sources
   /\ data.information_source \notin Sources)
  => /\ pc = "raised"
     /\ error = NoSourceMessage
     /\ StoreUntouched
     /\ imported = EmptyMap
     /\ failed = <<>>
     /\ event = 0

C1_Witness ==
  /\ pc = "raised"
  /\ error = NoSourceMessage
  /\ args.source = "SrcX"
  /\ data.information_source = "SrcX"
  /\ data.indicators # <<>>

\* C2: in both walks a node whose observable has no object properties appends
\* exactly one FailureRecord and the walk goes on to the later siblings.
MissingProperties(obs_list) ==
  {k \in DOMAIN obs_list : ~Cybox(obs_list[k]).props}
Records(fs, msg) == Cardinality({k \in DOMAIN fs : fs[k][1] = msg})
C2_MissingPropertiesRecorded ==
  [][/\ (/\ pc = "indicators"
         /\ ~IsWrapper(data.indicators[i])
         /\ ~IsMarker(data.indicators[i]))
        => /\ pc' # "raised"
           /\ i' = i + 1
           /\ Records(failed', NoPropertiesMessage) =
                Records(failed, NoPropertiesMessage)
                + Cardinality(MissingProperties(data.indicators[i].observables))
     /\ (/\ pc = "observables"
         /\ package_observables' # package_observables
         /\ ~Cybox(package_observables'[Len(package_observables')]).props)
        => /\ pc' = "observables"
           /\ failed' = Append(failed,
                               <<NoPropertiesMessage, "Observable",
                                 package_observables'[Len(package_observables')]>>)
    ]_vars

\* C3: once the source is resolved the run completes; the only aborts are the
\* two fatal conditions.  Stated on the documents whose plain indicators all
\* carry object properties.
AllHaveProperties ==
  \A k \in DOMAIN data.indicators :
    (~IsWrapper(data.indicators[k]) /\ ~IsMarker(data.indicators[k]))
      => MissingProperties(data.indicators[k].observables) = {}
C3_OnlyFatalAborts ==
  (pc = "raised" /\ AllHaveProperties)
    => error \in {"STIX package failure", NoSourceMessage}

\* C4: the phases occur in the order header, event, indicator walk, observable
\* walk, threat-actor walk, auxiliary passes.
AuxiliaryPositions ==
  {"ttps", "aliases", "comments", "relationship", "sources", "sectors", "sightings",
   "kill_chain", "rfi", "related_campaigns", "tlp", "releasability"}
ClaimedPhase(p) ==
  CASE p = "start" -> 0
    [] p = "event" -> 1
    [] p \in {"indicators", "campaigns"} -> 2
    [] p = "observables" -> 3
    [] p = "threat_actors" -> 4
    [] p \in AuxiliaryPositions -> 5
    [] p = "returned" -> 6
    [] p = "related" -> 7
    [] OTHER -> 8
C4_ClaimedOrder == [][ClaimedPhase(pc') >= ClaimedPhase(pc)]_vars

\* C4, amended: the order is header, event, indicator walk, auxiliary passes,
\* observable walk, threat-actor walk: while a pass runs, no top-level
\* observable and no threat actor has been read, and no phase is re-entered.
CodePhase(p) ==
  CASE p = "start" -> 0
    [] p = "event" -> 1
    [] p \in {"indicators", "campaigns"} -> 2
    [] p \in AuxiliaryPositions -> 3
    [] p = "observables" -> 4
    [] p = "threat_actors" -> 5
    [] p = "returned" -> 6
    [] p = "related" -> 7
    [] OTHER -> 8
Called(op) == \E k \in DOMAIN calls : calls[k][1] = op
C4_PassesBeforeObservables ==
  /\ [](pc \in AuxiliaryPositions
          => package_observables = <<>> /\ ~Called("add_new_actor"))
  /\ [][CodePhase(pc') >= CodePhase(pc)]_vars

C4_Witness ==
  /\ pc = "threat_actors"
  /\ package_observables # <<>>
  /\ Called("set_releasability_flag")
  /\ Called("set_tlp")

IsAttachment(rel) ==
  /\ rel[1] \in ObservableIds
  /\ Cybox(rel[1]).type = "EmailMessage"
  /\ rel[2] = "Contains"
  /\ rel[3] \in Range(Cybox(rel[1]).attachments)
  /\ rel[4] = "High"
IsForgedRelation(f) ==
  \E k \in DOMAIN data.indicators :
    /\ IndicatorId(k) \in DOMAIN imported
    /\ imported[IndicatorId(k)] = <<f[1], f[2]>>
    /\ \E j \in DOMAIN data.indicators[k].related :
         LET rel == data.indicators[k].related[j] IN
         /\ rel.title = "MARTI Relation"
         /\ <<f[3], f[4], f[5]>> = <<rel.id, rel.short_description, rel.confidence>>
BothImported(rel) == rel[1] \in DOMAIN imported /\ rel[3] \in DOMAIN imported
EdgeOf(rel) == <<imported[rel[1]][2], rel[2], imported[rel[3]][2], rel[4]>>
EdgesNotFrom(B, left) ==
  LET es == {e \in BagToSet(B) : e[1] # left}
      RECURSIVE sum(_)
      sum(S) == IF S = {} THEN 0
                ELSE LET e == CHOOSE x \in S : TRUE
                     IN CopiesIn(e, B) + sum(S \ {e})
  IN sum(es)
C6_DeferredRelationshipsStitched ==
  [][(pc = "returned" /\ pc' = "related")
       => /\ \A k \in DOMAIN relationships :
               BothImported(relationships[k])
                 => CopiesIn(EdgeOf(relationships[k]), edges')
                      - CopiesIn(EdgeOf(relationships[k]), edges)
                    = Cardinality({j \in DOMAIN relationships :
                                     /\ BothImported(relationships[j])
                                     /\ EdgeOf(relationships[j])
                                          = EdgeOf(relationships[k])})
          /\ EdgesNotFrom(edges', event) - EdgesNotFrom(edges, event)
               = Cardinality({k \in DOMAIN relationships :
                                BothImported(relationships[k])})
          /\ failed' = failed
          /\ imported' = imported
          /\ relationships' = relationships
    ]_vars

C6_Witness ==
  /\ pc = "related"
  /\ failed # <<>>
  /\ \E k \in DOMAIN relationships :
       /\ BothImported(relationships[k])
       /\ CopiesIn(EdgeOf(relationships[k]), edges) > 0
  /\ \E k \in DOMAIN relationships : ~BothImported(relationships[k])

\* C7: once relate_objects has run with an Event, every ledger entity that is
\* not the Event and whose id has no hint has exactly one edge from the Event,
\* of type "Related To" and confidence "Unknown"; the Event has no default
\* edge to itself.
EdgesBetween(left, right) ==
  LET es == {e \in BagToSet(edges) : e[1] = left /\ e[3] = right}
      RECURSIVE sum(_)
      sum(S) == IF S = {} THEN 0
                ELSE LET e == CHOOSE x \in S : TRUE
                     IN CopiesIn(e, edges) + sum(S \ {e})
  IN sum(es)
DefaultEdge(obj) == <<event, "Related To", obj, "Unknown">>
C7_DefaultEventEdges ==
  (pc = "related" /\ event # 0)
    => /\ \A id \in DOMAIN imported :
            (imported[id][1] # "Event" /\ id \notin DOMAIN event_rels)
              => /\ EdgesBetween(event, imported[id][2]) = 1
                 /\ CopiesIn(DefaultEdge(imported[id][2]), edges) = 1
       /\ CopiesIn(DefaultEdge(event), edges) = 0

C7_Witness ==
  /\ pc = "related"
  /\ event # 0
  /\ event_rels # EmptyMap
  /\ \E id \in DOMAIN imported :
       /\ imported[id][1] # "Event"
       /\ id \notin DOMAIN event_rels
       /\ CopiesIn(DefaultEdge(imported[id][2]), edges) = 1

\* C8: once relate_objects has run with an Event, every ledger entry whose id
\* has a hint has exactly one edge from the Event, carrying the hinted
\* relationship type and confidence, and no default edge.
C8_HintedEventEdges ==
  (pc = "related" /\ event # 0)
    => \A id \in DOMAIN imported \cap DOMAIN event_rels :
         /\ EdgesBetween(event, imported[id][2]) = 1
         /\ CopiesIn(<<event, event_rels[id][1], imported[id][2],
                       event_rels[id][2]>>, edges) = 1
         /\ CopiesIn(DefaultEdge(imported[id][2]), edges) = 0

C8_Witness ==
  /\ pc = "related"
  /\ event # 0
  /\ \E id \in DOMAIN imported \cap DOMAIN event_rels :
       /\ imported[id][1] # "Event"
       /\ CopiesIn(<<event, event_rels[id][1], imported[id][2],
                     event_rels[id][2]>>, edges) = 1

\* C9: parse_stix never stitches: until relate_objects runs, the store holds
\* no add_relationship edge and nothing has been saved by the stitcher, and
\* every deferred relationship and every hint recorded so far is still held.
C9_ParseNeverStitches ==
  /\ [](pc # "related" => (edges = EmptyBag /\ saved = {}))
  /\ [][pc' # "related"
          => /\ IsPrefix(relationships, relationships')
             /\ \A id \in DOMAIN event_rels :
                  id \in DOMAIN event_rels' /\ event_rels'[id] = event_rels[id]
       ]_vars

C9_Witness ==
  /\ pc = "returned"
  /\ event # 0
  /\ Len(relationships) > 2
  /\ event_rels # EmptyMap
  /\ edges = EmptyBag
  /\ saved = {}

\* C10: after parse_stix, for every "Top-Level Object" wrapper whose embedded
\* observable was imported, the ledger holds the entity under the wrapper id
\* only: no id of an embedded observable is a key of the ledger.
C10_WrapperIdOnly ==
  pc \in {"returned", "related"}
    => \A k \in DOMAIN data.indicators :
         (IsWrapper(data.indicators[k]) /\ IndicatorId(k) \in DOMAIN imported)
           => \A o \in Range(data.indicators[k].observables) :
                o \notin DOMAIN imported

\* ------------------------------------ the indicator walk and its passes
\* Documents of up to MaxIndicators + 1 indicators and no top-level
\* observable, read without an Event: the run up to the end of the passes.
ManyValued == [NoIndicator EXCEPT !.observables = <<"o8">>]
WalkShapes == {PlainIndicator, ManyValued, WrappedPair, CampaignMarker}
WalkDocuments ==
  {[valid |-> TRUE, information_source |-> "", indicators |-> inds, campaigns |-> nc,
    observables |-> {}] :
     inds \in SeqsUpTo(WalkShapes, MaxIndicators + 1), nc \in 0..MaxCampaigns}
WalkArguments == {a \in ArgumentsOf({<<"ref">>}, {"SrcA"}) : ~a.make_event}
NextWalk ==
  \/ ParseStix
  \/ ParseIndicator
  \/ ParseCampaigns
  \/ ParseTtps
  \/ ParseAliases
  \/ ParseComments
  \/ ParseRelationship
  \/ ParseSources
  \/ ParseSectors
  \/ ParseSightings
  \/ ParseKillChain
  \/ ParseRfi
  \/ ParseRelatedCampaigns
  \/ ParseTlp
  \/ SetReleasability
SpecWalk == InitWith(WalkDocuments, WalkArguments) /\ [][NextWalk]_vars

\* C11: a step of an auxiliary pass issues store calls only for ids that are
\* keys of the import ledger at that moment; an indicator absent from the
\* ledger gets no call in any pass.
NewCalls == {calls'[k] : k \in (Len(calls) + 1)..Len(calls')}
NewForged == {forged'[k] : k \in (Len(forged) + 1)..Len(forged')}
C11_PassesGatedByLedger ==
  [][(pc \in AuxiliaryPositions)
       => /\ imported' = imported
          /\ \A c \in NewCalls :
               /\ c[2] \in DOMAIN imported
               /\ \E j \in DOMAIN data.indicators : c[2] = IndicatorId(j)
          /\ \A f \in NewForged :
               \E j \in DOMAIN data.indicators :
                 /\ IndicatorId(j) \in DOMAIN imported
                 /\ imported[IndicatorId(j)] = <<f[1], f[2]>>
          /\ \A j \in DOMAIN data.indicators :
               (IndicatorId(j) \notin DOMAIN imported
                  => (\A c \in NewCalls : c[2] # IndicatorId(j)))
    ]_vars

C11_Witness ==
  /\ pc = "observables"
  /\ Len(data.indicators) = 2
  /\ IndicatorId(1) \in DOMAIN imported
  /\ IndicatorId(2) \notin DOMAIN imported
  /\ <<"set_releasability_flag", IndicatorId(1)>> \in Range(calls)
  /\ <<"modify_sector_list", IndicatorId(1)>> \in Range(calls)
  /\ <<"handle_indicator_ind", IndicatorId(2)>> \in Range(calls)

\* C12: once the walk meets a "MARTI Campaign" marker no indicator at or after
\* it goes to the indicator handler, every campaign of the document goes to
\* the campaign handler, and the passes are then each run over the indicator
\* list: the run gets through all of them to the releasability pass.
FirstMarker(m) ==
  /\ m \in DOMAIN data.indicators
  /\ IsMarker(data.indicators[m])
  /\ \A j \in 1..(m - 1) : ~IsMarker(data.indicators[j])
CallsOf(op) == Cardinality({k \in DOMAIN calls : calls[k][1] = op})
PassesRun ==
  \A j \in DOMAIN data.indicators :
    IndicatorId(j) \in DOMAIN imported
      => \A op \in {"modify_campaign_aliases", "modify_sector_list",
                    "modify_kill_chain_list", "set_releasability_flag"} :
           <<op, IndicatorId(j)>> \in Range(calls)
C12_MarkerThenPasses ==
  \A m \in DOMAIN data.indicators :
    FirstMarker(m)
      => /\ \A j \in m..Len(data.indicators) :
              <<"handle_indicator_ind", IndicatorId(j)>> \notin Range(calls)
         /\ pc \in AuxiliaryPositions \cup {"observables", "raised"}
              => CallsOf("add_campaign") = data.campaigns
         /\ pc # "raised"
         /\ pc = "observables" => PassesRun

\* C13: the walk of a plain indicator passes every value to the indicator
\* handler; each failing value appends one FailureRecord and leaves the
\* ledger alone, and when a value succeeded the ledger ends with one entry
\* for the indicator id, holding the entity of the last successful value.
Values(obs_list) ==
  LET RECURSIVE sum(_)
      sum(k) == IF k = 0 THEN 0
                ELSE make_crits_object(Cybox(obs_list[k])).nvalues + sum(k - 1)
  IN sum(Len(obs_list))
C13_LastWriteWins ==
  [][(/\ pc = "indicators"
      /\ ~IsWrapper(data.indicators[i])
      /\ ~IsMarker(data.indicators[i])
      /\ pc' # "raised")
       => /\ Len(calls') - Len(calls) = Values(data.indicators[i].observables)
          /\ \A c \in NewCalls : c = <<"handle_indicator_ind", IndicatorId(i)>>
          /\ (nobjs' - nobjs) + (Len(failed') - Len(failed)) = Len(calls') - Len(calls)
          /\ IsPrefix(failed, failed')
          /\ nobjs' > nobjs
               => imported' = Put(imported, IndicatorId(i), <<"Indicator", nobjs'>>)
          /\ nobjs' = nobjs => imported' = imported
    ]_vars

C13_Witness ==
  /\ pc = "comments"
  /\ data.indicators = <<ManyValued>>
  /\ CallsOf("handle_indicator_ind") = 3
  /\ nobjs = 2
  /\ Len(failed) = 1
  /\ imported = (IndicatorId(1) :> <<"Indicator", 2>>)

Resolved == pc \notin {"start", "raised"}
WithNote(reference, info) ==
  IF reference = <<>> THEN <<"STIX Source: ", info>>
  ELSE reference \o <<", ", "STIX Source: ", info>>
C15_NoteWhenDiffers ==
  Resolved
    => /\ Len(source.instances) = 1
       /\ source.instances[1].reference =
            IF data.information_source # "" /\ data.information_source # source.name
              THEN WithNote(args.reference, data.information_source)
              ELSE args.reference

\* C15, amended: the note is carried whenever the document declares an
\* information source, equal to the chosen source name or not, and is left
\* out only when the document declares none.
C15_NoteWhenDeclared ==
  Resolved
    => /\ Len(source.instances) = 1
       /\ source.instances[1] = source_instance
       /\ source_instance.reference =
            IF data.information_source # ""
              THEN WithNote(args.reference, data.information_source)
              ELSE args.reference

C15_Witness ==
  /\ Resolved
  /\ data.information_source = "SrcB"
  /\ source.name = "SrcB"
  /\ args.reference = <<"ref">>
  /\ source.instances[1].reference = <<"ref", ", ", "STIX Source: ", "SrcB">>

\* ------------------------------------------ the top-level observables
\* Documents without indicators whose top-level observables are drawn from
\* addresses of a recognized and of another category, the three kinds of
\* File and an object of several values; read without an Event.
WalkedObservables == {"o1", "o4", "o5", "o6", "o7", "o8"}
ObservableDocuments ==
  {Unparsable,
   [valid |-> TRUE, information_source |-> "", indicators |-> <<>>, campaigns |-> 0,
    observables |-> WalkedObservables]}
ObservableArguments ==
  {a \in ArgumentsOf({<<>>, <<"ref">>}, {"", "SrcA"}) : ~a.make_event}
NextObservables ==
  \/ ParseStix
  \/ ParseObservable
  \/ EndObservables
  \/ ParseThreatActor
  \/ EndThreatActors
SpecObservables ==
  InitWith(ObservableDocuments, ObservableArguments) /\ [][NextObservables]_vars

\* C16: a File is imported by priority: as Certificate when its type-tag
\* property says so, also with a network-capture artifact; else as PCAP when
\* it has a network-capture artifact; else as Sample.  One persistence
\* handler is called for it and the ledger entry has the kind chosen.
Handlers ==
  {"ip_add_update", "upsert_domain", "handle_raw_data_file", "handle_cert_file",
   "handle_pcap_file", "handle_file", "handle_email_fields", "handle_indicator_ind"}
Walked == package_observables'[Len(package_observables')]
C16_FilePriority ==
  [][(/\ pc = "observables"
      /\ package_observables' # package_observables
      /\ Cybox(Walked).type = "File")
       => LET item == Cybox(Walked)
              kind == IF item.cert THEN "Certificate"
                      ELSE IF item.network THEN "PCAP" ELSE "Sample"
              handler == CASE kind = "Certificate" -> "handle_cert_file"
                           [] kind = "PCAP" -> "handle_pcap_file"
                           [] OTHER -> "handle_file"
          IN /\ Cardinality({k \in (Len(calls) + 1)..Len(calls') :
                               calls'[k][1] \in Handlers}) = 1
             /\ <<handler, Walked>> \in NewCalls
             /\ nobjs' > nobjs
                  => imported' = Put(imported, Walked, <<kind, nobjs'>>)
             /\ nobjs' = nobjs
                  => (imported' = imported /\ Len(failed') > Len(failed))
    ]_vars

C16_Witness ==
  /\ pc = "threat_actors"
  /\ package_observables = <<"o4">>
  /\ Cybox("o4").cert /\ Cybox("o4").network
  /\ calls = << <<"handle_cert_file", "o4">> >>
  /\ imported = ("o4" :> <<"Certificate", 1>>)

\* C17: an Address never goes to the Indicator handler, whatever its
\* category: the only handler called for it is the IP handler and its ledger
\* entry, if any, is of kind IP.
IsAddress(id) == id \in WalkedObservables /\ Cybox(id).type = "Address"
C18_UnrecognizedCategoryFails ==
  \A o \in Range(package_observables) :
    (Cybox(o).type = "Address" /\ Cybox(o).category \notin IpCategories)
      => /\ o \notin DOMAIN imported
         /\ \E k \in DOMAIN failed : failed[k][3] \in {o, ObjectId(o)}

\* C19: for a document with a valid source, no Event, and a single Address
\* observable of a recognized category with one value whose IP handler call
\* succeeds, parse_stix ends with one ledger entry, of kind IP under the id
\* of the observable, and an empty failure ledger.
C19_SingleAddress ==
  (/\ pc = "returned"
   /\ ~args.make_event
   /\ data.indicators = <<>>
   /\ Len(package_observables) = 1
   /\ Cybox(package_observables[1]).type = "Address"
   /\ Cybox(package_observables[1]).category \in IpCategories
   /\ Cybox(package_observables[1]).nvalues = 1
   /\ CallsOf("add_new_actor") = 0
   /\ nobjs = 1)
    => /\ imported = (package_observables[1] :> <<"IP", 1>>)
       /\ failed = <<>>
       /\ calls = << <<"ip_add_update", package_observables[1]>> >>

C19_Witness ==
  /\ pc = "returned"
  /\ source.name = "SrcA"
  /\ package_observables = <<"o1">>
  /\ imported = ("o1" :> <<"IP", 1>>)
  /\ failed = <<>>

\* C20: every FailureRecord carries the type label and the id of the node
\* that failed: a record of a threat actor carries the id of the threat actor.
C20_FailureRecordsCarryNodeId ==
  \A k \in DOMAIN failed :
    \/ /\ failed[k][2] = "Observable"
       /\ failed[k][3] \in Range(package_observables)
    \/ /\ failed[k][2] = "ThreatActor"
       /\ failed[k][3] \in {ActorId(j) : j \in 1..MaxActors}
    \/ \E o \in Range(package_observables) :
         /\ failed[k][2] = Cybox(o).type
         /\ failed[k][3] \in {o, ObjectId(o)}

\* ---------------------------------------------------- the comment pass
\* Documents of up to MaxIndicators + 1 indicators with comment relations,
\* read up to the comment pass, which the caller then runs a second time.
CommentShapes == {PlainIndicator, Commented, CommentedTwice, CommentedAnew}
CommentDocuments ==
  {[valid |-> TRUE, information_source |-> "", indicators |-> inds, campaigns |-> 0,
    observables |-> {}] :
     inds \in SeqsUpTo(CommentShapes, MaxIndicators + 1)}
NextComments ==
  \/ ParseStix
  \/ ParseIndicator
  \/ ParseComments
  \/ ParseCommentsAgain
SpecComments == InitWith(CommentDocuments, WalkArguments) /\ [][NextComments]_vars

\* C21: the comment pass run a second time over the same indicators creates
\* no comment: every incoming comment relation finds a comment of the same
\* text and date on the entity, and the comments of the store stay as the
\* first pass left them.
C21_CommentPassIdempotent ==
  [][pc' = "commented again"
       => /\ calls' = calls
          /\ \A k \in DOMAIN data.indicators :
               IndicatorId(k) \in DOMAIN imported
                 => \A j \in DOMAIN data.indicators[k].related :
                      LET rel == data.indicators[k].related[j] IN
                      rel.title = "CRITs Comment(s)"
                        => <<"comment_add", IndicatorId(k), imported[IndicatorId(k)][2],
                             rel.description, rel.timestamp>> \in Range(calls)
    ]_vars

C21_Witness ==
  /\ pc = "commented again"
  /\ data.indicators = <<Commented>>
  /\ calls = << <<"handle_indicator_ind", "i1">>,
                <<"comment_add", "i1", 1, "note", 1>> >>

\* C29: after one run of the comment pass no entity has two comments made by
\* that pass with the same text and date, also when one indicator carries two
\* comment relations of the same text and date.
C29_NoDuplicateComments ==
  pc = "relationship"
    => \A j, k \in DOMAIN calls :
         (j # k /\ calls[j][1] = "comment_add" /\ calls[k][1] = "comment_add")
           => <<calls[j][3], calls[j][4], calls[j][5]>>
                # <<calls[k][3], calls[k][4], calls[k][5]>>

\* --------------------------------------------------------- threat actors
\* C28: for each threat actor imported with success, the tag list given to
\* update_actor_tags for each of the four categories holds only tags derived
\* from that category's own attribute, and the actor is recorded under its id
\* with the kind Actor.
C28_TagsOfOwnCategory ==
  \A k \in DOMAIN calls :
    calls[k][1] = "update_actor_tags"
      => /\ \A j \in DOMAIN calls[k][4] :
              \E c \in DOMAIN ActorTags :
                /\ ActorTags[c] = calls[k][3]
                /\ calls[k][4][j] \in ActorVocabulary[c]
         /\ calls[k][2] \in DOMAIN imported
         /\ imported[calls[k][2]][1] = "Actor"

\* ------------------------------------------------ the source attribution
AttributionDocuments ==
  {[valid |-> TRUE, information_source |-> info, indicators |-> inds, campaigns |-> nc,
    observables |-> {"o1"}] :
     info \in {"", "SrcB"}, inds \in SeqsUpTo({PlainIndicator, CampaignMarker}, MaxIndicators),
     nc \in 0..MaxCampaigns}
SpecAttribution == InitWith(AttributionDocuments, Arguments) /\ [][Next]_vars

\* C22: once the source name is resolved it is never written again: in every
\* later step (the creation of the Event, the walks, the passes, the
\* stitching) the attribution keeps the resolved name, the override when it
\* is a recognized source and the declared information source otherwise, and
\* its list of instances is unchanged.
C22_SourceSetOnce ==
  [][(pc \notin {"start", "raised"})
       => /\ source' = source
          /\ source_instance' = source_instance
          /\ source'.name = IF args.source \in Sources THEN args.source
                            ELSE data.information_source
          /\ source'.instances = <<source_instance>>
    ]_vars

C22_Witness ==
  /\ pc = "related"
  /\ event # 0
  /\ Cardinality(DOMAIN imported) > 1
  /\ args.source \notin Sources
  /\ source.name = "SrcB"
  /\ source.instances = <<source_instance>>

\* ------------------------------------------------------ the run's ledgers
\* C23: relate_objects leaves the failure ledger, the import ledger, the list
\* of deferred relationships and the hint map unchanged; it appends no
\* FailureRecord, also when an endpoint of a deferred relationship is missing;
\* and over the whole run the failure ledger only grows at its end: its value
\* before a step is a prefix of its value after it.
C23_StitchingReadsLedgers ==
  [][/\ IsPrefix(failed, failed')
     /\ (pc = "returned" /\ pc' = "related")
          => /\ failed' = failed
             /\ imported' = imported
             /\ relationships' = relationships
             /\ event_rels' = event_rels
    ]_vars

C23_Witness ==
  /\ pc = "related"
  /\ Len(failed) > 1
  /\ \E k \in DOMAIN relationships :
       /\ relationships[k][1] \in DOMAIN imported
       /\ relationships[k][3] \notin DOMAIN imported

\* ------------------------------------------- the passes and the marker
\* C24 as claimed: in every run whose document has indicators the ttps pass
\* and the aliases pass are executed over the indicator list like the other
\* passes, whether or not a campaign marker was met: when the passes are over
\* every saved indicator has had its aliases, sectors, kill chain and
\* releasability updated.
C24_PassesWithoutMarker ==
  (pc = "observables" /\ data.indicators # <<>>)
    => \A j \in DOMAIN data.indicators :
         IndicatorId(j) \in DOMAIN imported
           => \A op \in {"modify_campaign_aliases", "modify_sector_list",
                         "modify_kill_chain_list", "set_releasability_flag"} :
                \E k \in DOMAIN calls : calls[k][1] = op /\ calls[k][2] = IndicatorId(j)

\* C24: the campaign import, the ttps pass and the aliases pass are executed
\* exactly when the indicator walk met a campaign marker, one after the other
\* and before the comment pass; a walk that ends without a marker goes
\* straight to the comment pass, and such a run makes no ttp and no alias
\* update.
C24_TtpsAliasesOnlyAfterMarker ==
  [][/\ (pc = "indicators" /\ pc' # "indicators")
          => IF IsMarker(data.indicators[i])
               THEN pc' = "campaigns"
               ELSE pc' \in {"comments", "raised"} /\ i = Len(data.indicators)
     /\ (pc' \in {"campaigns", "ttps", "aliases"}) => FirstMarker(i')
     /\ (pc = "campaigns") => (pc' = "ttps")
     /\ (pc = "ttps") => (pc' = "aliases")
     /\ (pc = "aliases") => (pc' = "comments")
     /\ (\A m \in DOMAIN data.indicators : ~IsMarker(data.indicators[m]))
          => (\A k \in DOMAIN calls' :
                calls'[k][1] \notin {"add_campaign", "merge_ttp", "modify_campaign_aliases"})
    ]_vars

C24_Witness ==
  /\ pc = "observables"
  /\ data.indicators = <<PlainIndicator>>
  /\ "i1" \in DOMAIN imported
  /\ <<"modify_sector_list", "i1">> \in Range(calls)
  /\ <<"modify_campaign_aliases", "i1">> \notin Range(calls)

\* --------------------------------------------------------------- the Event
\* C25: the Event is created only when the caller asked for it.  When the
\* handler succeeds the Event is recorded under the document id with the kind
\* Event and the hints are read from the first incident; when it fails one
\* FailureRecord is appended, the run goes on to the walks, no Event entry
\* is made, the hint map stays empty and relate_objects makes no edge from an
\* Event.
C25_EventOnRequest ==
  [][/\ (pc' = "event" \/ event' # 0 \/ <<"add_new_event", PackageId>> \in Range(calls'))
          => args.make_event
     /\ (pc = "event")
          => /\ pc' = (IF data.indicators # <<>> THEN "indicators" ELSE "observables")
             /\ calls' = Append(calls, <<"add_new_event", PackageId>>)
             /\ \/ /\ event' = nobjs' /\ event' # 0
                   /\ imported' = Put(imported, PackageId, <<"Event", event'>>)
                   /\ failed' = failed
                   /\ \E hints \in HintLists :
                        /\ DOMAIN event_rels' = {hints[k][1] : k \in DOMAIN hints}
                        /\ \A k \in DOMAIN hints :
                             event_rels'[hints[k][1]] = <<hints[k][2], hints[k][3]>>
                \/ /\ event' = 0
                   /\ imported' = imported
                   /\ failed' = Append(failed, <<"handler message", "STIX Event", "">>)
                   /\ event_rels' = EmptyMap
     /\ (event' = 0)
          => /\ \A id \in DOMAIN imported' : imported'[id][1] # "Event"
             /\ event_rels' = EmptyMap
             /\ BagToSet(edges') \subseteq {DeferredEdge(k)' : k \in Resolvable'}
    ]_vars

C25_Witness ==
  /\ pc = "related"
  /\ args.make_event
  /\ event = 0
  /\ failed = << <<"handler message", "STIX Event", "">> >>
  /\ \E id \in DOMAIN imported : imported[id][1] = "Indicator"
  /\ \E id \in DOMAIN imported : imported[id][1] = "Actor"
  /\ saved # {}

\* ------------------------------------------------------- wrapped emails
\* C26: when an email with an attachment reference is embedded in a
\* "Top-Level Object" wrapper and both the email and the attachment are
\* imported, then after relate_objects a "Contains" edge of confidence "High"
\* goes from the email's entity to the attachment's entity.
C26_WrappedEmailContains ==
  pc = "related"
    => \A k \in DOMAIN data.indicators :
         LET indicator == data.indicators[k]
             id == IndicatorId(k)
         IN (/\ IsWrapper(indicator)
             /\ id \in DOMAIN imported
             /\ imported[id][1] = "Email")
              => \A att \in Range(Cybox(indicator.observables[1]).attachments) :
                   att \in DOMAIN imported
                     => CopiesIn(<<imported[id][2], "Contains", imported[att][2], "High">>,
                                 edges) > 0

\* ------------------------------------------------------------ campaigns
\* Documents of up to MaxIndicators + 1 plain indicators and markers, with
\* up to MaxCampaigns + 1 campaigns, read up to the end of the aliases pass.
CampaignDocuments ==
  {[valid |-> TRUE, information_source |-> "", indicators |-> inds, campaigns |-> nc,
    observables |-> {}] :
     inds \in SeqsUpTo({PlainIndicator, ManyValued, CampaignMarker}, MaxIndicators + 1),
     nc \in 0..(MaxCampaigns + 1)}
NextCampaigns ==
  \/ ParseStix
  \/ ParseIndicator
  \/ ParseCampaigns
  \/ ParseTtps
  \/ ParseAliases
SpecCampaigns == InitWith(CampaignDocuments, WalkArguments) /\ [][NextCampaigns]_vars

\* C27: after a marker every campaign of the document goes to the campaign
\* handler and every one added with success is recorded under the id of the
\* first indicator: when at least one was added the ledger holds one Campaign
\* entry, under that id, for the campaign added last, in place of any entry
\* the first indicator had before; the other entries are as they were.
C27_CampaignUnderFirstIndicator ==
  [][/\ (pc = "campaigns")
          => /\ calls' = calls \o [k \in 1..data.campaigns |-> <<"add_campaign", IndicatorId(1)>>]
             /\ failed' = failed
             /\ nobjs' \in nobjs..(nobjs + data.campaigns)
             /\ imported' = IF nobjs' > nobjs
                              THEN Put(imported, IndicatorId(1), <<"Campaign", nobjs'>>)
                              ELSE imported
     /\ Cardinality({id \in DOMAIN imported' : imported'[id][1] = "Campaign"}) <= 1
    ]_vars

C27_Witness ==
  /\ pc = "ttps"
  /\ data.indicators = <<PlainIndicator, CampaignMarker>>
  /\ data.campaigns = 2
  /\ calls = << <<"handle_indicator_ind", "i1">>, <<"add_campaign", "i1">>,
                <<"add_campaign", "i1">> >>
  /\ imported = Put(EmptyMap, "i1", <<"Campaign", 3>>)
====
